---- MODULE Spec2Model ----
(***************************************************************************)
(* Schema derivation engine of trpc-to-openapi: getParameterObjects,       *)
(* getRequestBodyObject, getResponsesObject and errorResponseObject        *)
(* (src/src/adapters/standalone.ts, lines 53-257).                         *)
(*                                                                         *)
(* A validator node (a Zod schema) is a record                             *)
(*    [wraps |-> <<w1, ..., wn>>, base |-> b, shape |-> <<f1, ..., fm>>]   *)
(* w1 is the outermost wrapper layer, b the kind of the innermost node and *)
(* shape the ordered fields [name, schema] of an object node (<<>> for any *)
(* other base).  z.string().optional().nullable() is                       *)
(*    [wraps |-> <<"ZodNullable", "ZodOptional">>, base |-> "ZodString"].  *)
(* A ZodDefault layer is written "ZodDefault" when the schema below it     *)
(* accepts the default value, and "ZodDefault:rejected" when it does not,  *)
(* as in z.string().min(5).default('x').                                   *)
(***************************************************************************)
EXTENDS Naturals, Sequences, FiniteSets

VARIABLES schema, pathParameters, inType, contentTypes, parameters, requestBody,
          outputSchema, responseHeaders, responses

vars == <<schema, pathParameters, inType, contentTypes, parameters, requestBody,
          outputSchema, responseHeaders, responses>>

(***************************************************************************)
(* Bounds and input alphabets.                                             *)
(***************************************************************************)
\* Largest number of wrapper layers in one schema tree (root plus fields).
MaxWrap == 2

WrapperKinds == {"ZodOptional", "ZodNullable", "ZodDefault", "ZodDefault:rejected"}
\* The keys of an input object, in declaration order.  "constructor" is also
\* the name of a member of Object.prototype.
FieldKeyLists ==
    { <<>>, <<"id">>, <<"name">>, <<"constructor">>,
      <<"id", "name">>, <<"id", "constructor">> }
FieldBases == {"ZodString", "ZodNumber", "ZodObject"}
RootBases == {"ZodVoid", "ZodUndefined", "ZodNever", "ZodString"}
OutputBases == {"ZodVoid", "ZodUndefined", "ZodNever", "ZodString", "ZodNumber"}
PathParameterLists ==
    { <<>>, <<"id">>, <<"name">>,
      <<"id", "name">>, <<"name", "id">>, <<"id", "slug">> }
ContentTypeLists ==
    { <<>>, <<"application/json", "application/x-www-form-urlencoded">> }
Scopes == {"all", "path", "query"}

(***************************************************************************)
(* Validator nodes and the zod methods the derivers call.                  *)
(***************************************************************************)
Node(w, b, s) == [wraps |-> w, base |-> b, shape |-> s]

\* A value that is not a validator node: no _def.typeName.
NotAZodType == Node(<<>>, "plain", <<>>)

\* The JavaScript value undefined, as a headers argument.
UndefinedValue == Node(<<>>, "undefined", <<>>)

\* The two ways a ZodDefault layer is written.
DefaultLayers == {"ZodDefault", "ZodDefault:rejected"}

typeName(type) ==
    IF type.wraps = <<>> THEN type.base
    ELSE IF Head(type.wraps) \in DefaultLayers THEN "ZodDefault"
    ELSE Head(type.wraps)

\* The node one wrapper layer below.
innerType(type) == [type EXCEPT !.wraps = Tail(@)]

\* ZodOptional.unwrap()
unwrap(type) == innerType(type)

\* ZodType.optional(): always adds one ZodOptional layer.
optional(type) == [type EXCEPT !.wraps = <<"ZodOptional">> \o @]

\* z.object(shape)
zobject(shape) == Node(<<>>, "ZodObject", shape)

\* ZodType.isOptional(): safeParse(undefined).success.  A ZodDefault layer
\* parses its default value with the schema below it.
RECURSIVE isOptional(_)
isOptional(type) ==
    CASE typeName(type) = "ZodOptional" -> TRUE
      [] typeName(type) = "ZodDefault" -> Head(type.wraps) = "ZodDefault"
      [] typeName(type) = "ZodNullable" -> isOptional(innerType(type))
      [] typeName(type) \in {"ZodVoid", "ZodUndefined"} -> TRUE
      [] OTHER -> FALSE

\* The members a plain object literal inherits from Object.prototype.
ObjectPrototypeKeys ==
    {"constructor", "hasOwnProperty", "isPrototypeOf", "propertyIsEnumerable",
     "toLocaleString", "toString", "valueOf", "__proto__",
     "__defineGetter__", "__defineSetter__", "__lookupGetter__", "__lookupSetter__"}

\* ZodObject.omit(mask): keeps the keys k of the shape for which mask[k] is
\* falsy.  mask is the set of own keys of the object literal of line 178;
\* mask[k] is also truthy for every member inherited from Object.prototype.
omit(type, mask) ==
    [type EXCEPT !.shape =
        SelectSeq(@, LAMBDA f : f.name \notin mask \cup ObjectPrototypeKeys)]

\* Object.keys(shape), in declaration order.
ObjectKeys(shape) == [i \in 1..Len(shape) |-> shape[i].name]

Range(seq) == {seq[i] : i \in 1..Len(seq)}

(***************************************************************************)
(* utils/zod: the type-introspection predicates and the unwrap operation.  *)
(***************************************************************************)
instanceofZodType(type) == type.base \notin {"plain", "undefined"}

instanceofZodTypeKind(type, zodTypeKind) == typeName(type) = zodTypeKind

instanceofZodTypeOptional(type) == instanceofZodTypeKind(type, "ZodOptional")

instanceofZodTypeObject(type) == instanceofZodTypeKind(type, "ZodObject")

instanceofZodTypeLikeVoid(type) ==
    \/ instanceofZodTypeKind(type, "ZodVoid")
    \/ instanceofZodTypeKind(type, "ZodUndefined")
    \/ instanceofZodTypeKind(type, "ZodNever")

RECURSIVE unwrapZodType(_, _)
unwrapZodType(type, unwrapPreprocess) ==
    IF typeName(type) \in {"ZodOptional", "ZodNullable", "ZodDefault"}
    THEN unwrapZodType(innerType(type), unwrapPreprocess)
    ELSE type

instanceofZodTypeLikeString(type) ==
    instanceofZodTypeKind(unwrapZodType(type, FALSE), "ZodString")

instanceofZodTypeCoercible(type) ==
    typeName(unwrapZodType(type, FALSE))
        \in {"ZodNumber", "ZodBoolean", "ZodBigInt", "ZodDate"}

\* 'coerce' in z: the zod 3 builds the package depends on support coercion.
zodSupportsCoerce == TRUE

(***************************************************************************)
(* Results of a call: a value, undefined, or a thrown TRPCError.           *)
(***************************************************************************)
Pending == [status |-> "pending"]
Undefined == [status |-> "undefined"]
Threw(msg, k) == [status |-> "threw", code |-> "INTERNAL_SERVER_ERROR",
                  message |-> msg, key |-> k]

NotAValidatorInput == "Input parser expects a Zod validator"
NotAValidatorOutput == "Output parser expects a Zod validator"
InputNotObject == "Input parser must be a ZodObject"
UnknownPathParameter == "Input parser expects key from path"
UnsupportedFieldTypeCoerce ==
    "Input parser key must be ZodString, ZodNumber, ZodBoolean, ZodBigInt or ZodDate"
UnsupportedFieldTypeString == "Input parser key must be ZodString"
OptionalPathParameter == "Path parameter must not be optional"

(***************************************************************************)
(* getParameterObjects                                                     *)
(***************************************************************************)
isPathParameter(pathParams, shapeKey) == shapeKey \in Range(pathParams)

\* The .filter() callback: which fields the scope keeps.
ScopeFilter(pathParams, scope, shapeKey) ==
    IF scope = "path" THEN isPathParameter(pathParams, shapeKey)
    ELSE IF scope = "query" THEN ~isPathParameter(pathParams, shapeKey)
    ELSE TRUE

\* MapField without the check of lines 123-129: an optional path parameter
\* is unwrapped like a query field.
MapField_NoOptionalCheck(field, pathParams, isRequired) ==
    LET shapeKey == field.name
        shapeSchema == field.schema
        isShapeRequired == ~isOptional(shapeSchema)
        isPath == isPathParameter(pathParams, shapeKey)
    IN  IF /\ ~instanceofZodTypeLikeString(shapeSchema)
           /\ zodSupportsCoerce
           /\ ~instanceofZodTypeCoercible(shapeSchema)
        THEN Threw(UnsupportedFieldTypeCoerce, shapeKey)
        ELSE IF ~instanceofZodTypeLikeString(shapeSchema) /\ ~zodSupportsCoerce
        THEN Threw(UnsupportedFieldTypeString, shapeKey)
        ELSE [status |-> "ok",
              name |-> shapeKey,
              paramType |-> IF isPath THEN "path" ELSE "query",
              required |-> isPath \/ (isRequired /\ isShapeRequired),
              schema |-> IF instanceofZodTypeOptional(shapeSchema)
                         THEN unwrap(shapeSchema) ELSE shapeSchema]

\* MapField with line 136 reading isRequired || isShapeRequired.
MapField_RequiredEither(field, pathParams, isRequired) ==
    LET shapeKey == field.name
        shapeSchema == field.schema
        isShapeRequired == ~isOptional(shapeSchema)
        isPath == isPathParameter(pathParams, shapeKey)
    IN  IF /\ ~instanceofZodTypeLikeString(shapeSchema)
           /\ zodSupportsCoerce
           /\ ~instanceofZodTypeCoercible(shapeSchema)
        THEN Threw(UnsupportedFieldTypeCoerce, shapeKey)
        ELSE IF ~instanceofZodTypeLikeString(shapeSchema) /\ ~zodSupportsCoerce
        THEN Threw(UnsupportedFieldTypeString, shapeKey)
        ELSE IF instanceofZodTypeOptional(shapeSchema) /\ isPath
        THEN Threw(OptionalPathParameter, shapeKey)
        ELSE [status |-> "ok",
              name |-> shapeKey,
              paramType |-> IF isPath THEN "path" ELSE "query",
              required |-> isPath \/ (isRequired \/ isShapeRequired),
              schema |-> IF instanceofZodTypeOptional(shapeSchema)
                         THEN unwrap(shapeSchema) ELSE shapeSchema]

\* The .map() callback on one field: a parameter record, or the error thrown.
MapField(field, pathParams, isRequired) ==
    LET shapeKey == field.name
        shapeSchema == field.schema
        isShapeRequired == ~isOptional(shapeSchema)
        isPath == isPathParameter(pathParams, shapeKey)
    IN  IF /\ ~instanceofZodTypeLikeString(shapeSchema)
           /\ zodSupportsCoerce
           /\ ~instanceofZodTypeCoercible(shapeSchema)
        THEN Threw(UnsupportedFieldTypeCoerce, shapeKey)
        ELSE IF ~instanceofZodTypeLikeString(shapeSchema) /\ ~zodSupportsCoerce
        THEN Threw(UnsupportedFieldTypeString, shapeKey)
        ELSE IF instanceofZodTypeOptional(shapeSchema) /\ isPath
        THEN Threw(OptionalPathParameter, shapeKey)
        ELSE [status |-> "ok",
              name |-> shapeKey,
              paramType |-> IF isPath THEN "path" ELSE "query",
              required |-> isPath \/ (isRequired /\ isShapeRequired),
              schema |-> IF instanceofZodTypeOptional(shapeSchema)
                         THEN unwrap(shapeSchema) ELSE shapeSchema]

\* The fields after .filter().map(), in the object's field order.
MappedFields(unwrappedSchema, pathParams, scope, isRequired) ==
    LET kept == SelectSeq(unwrappedSchema.shape,
                          LAMBDA f : ScopeFilter(pathParams, scope, f.name))
    IN  [i \in 1..Len(kept) |-> MapField(kept[i], pathParams, isRequired)]

\* ReduceTo that never wraps a schema back in an optional marker.
ReduceTo_NeverWrapped(mapped, location) ==
    LET mine == SelectSeq(mapped, LAMBDA p : p.paramType = location)
    IN  [i \in 1..Len(mine) |-> [name |-> mine[i].name, schema |-> mine[i].schema]]

\* The .reduce() step for one location: name -> schema, wrapped back in an
\* optional marker when the parameter is not required.
ReduceTo(mapped, location) ==
    LET mine == SelectSeq(mapped, LAMBDA p : p.paramType = location)
    IN  [i \in 1..Len(mine) |->
            [name |-> mine[i].name,
             schema |-> IF mine[i].required THEN mine[i].schema
                        ELSE optional(mine[i].schema)]]

\* getParameterObjects with the object check of lines 73-78 before the void
\* shortcut of lines 69-71.
getParameterObjects_ObjectCheckFirst(sch, pathParams, headersSchema, scope) ==
    IF ~instanceofZodType(sch) THEN Threw(NotAValidatorInput, "")
    ELSE
    LET isRequired == ~isOptional(sch)
        unwrappedSchema == unwrapZodType(sch, TRUE)
        shapeKeys == ObjectKeys(unwrappedSchema.shape)
        unknown == {i \in 1..Len(pathParams) : pathParams[i] \notin Range(shapeKeys)}
        mapped == MappedFields(unwrappedSchema, pathParams, scope, isRequired)
        thrown == {i \in 1..Len(mapped) : mapped[i].status = "threw"}
    IN  IF ~instanceofZodTypeObject(unwrappedSchema)
        THEN Threw(InputNotObject, "")
        ELSE IF unknown # {}
        THEN Threw(UnknownPathParameter,
                   pathParams[CHOOSE i \in unknown : \A j \in unknown : i <= j])
        ELSE IF thrown # {}
        THEN mapped[CHOOSE i \in thrown : \A j \in thrown : i <= j]
        ELSE [status |-> "returned",
              header |-> headersSchema,
              path |-> zobject(ReduceTo(mapped, "path")),
              query |-> zobject(ReduceTo(mapped, "query"))]

\* getParameterObjects with the loop of lines 83-90 moved after the
\* classification of the fields.
getParameterObjects_ClassifyFirst(sch, pathParams, headersSchema, scope) ==
    IF ~instanceofZodType(sch) THEN Threw(NotAValidatorInput, "")
    ELSE
    LET isRequired == ~isOptional(sch)
        unwrappedSchema == unwrapZodType(sch, TRUE)
        shapeKeys == ObjectKeys(unwrappedSchema.shape)
        unknown == {i \in 1..Len(pathParams) : pathParams[i] \notin Range(shapeKeys)}
        mapped == MappedFields(unwrappedSchema, pathParams, scope, isRequired)
        thrown == {i \in 1..Len(mapped) : mapped[i].status = "threw"}
    IN  IF Len(pathParams) = 0 /\ instanceofZodTypeLikeVoid(unwrappedSchema)
        THEN Undefined
        ELSE IF ~instanceofZodTypeObject(unwrappedSchema)
        THEN Threw(InputNotObject, "")
        ELSE IF thrown # {}
        THEN mapped[CHOOSE i \in thrown : \A j \in thrown : i <= j]
        ELSE IF unknown # {}
        THEN Threw(UnknownPathParameter,
                   pathParams[CHOOSE i \in unknown : \A j \in unknown : i <= j])
        ELSE [status |-> "returned",
              header |-> headersSchema,
              path |-> zobject(ReduceTo(mapped, "path")),
              query |-> zobject(ReduceTo(mapped, "query"))]

getParameterObjects(sch, pathParams, headersSchema, scope) ==
    IF ~instanceofZodType(sch) THEN Threw(NotAValidatorInput, "")
    ELSE
    LET isRequired == ~isOptional(sch)
        unwrappedSchema == unwrapZodType(sch, TRUE)
        shapeKeys == ObjectKeys(unwrappedSchema.shape)
        unknown == {i \in 1..Len(pathParams) : pathParams[i] \notin Range(shapeKeys)}
        mapped == MappedFields(unwrappedSchema, pathParams, scope, isRequired)
        thrown == {i \in 1..Len(mapped) : mapped[i].status = "threw"}
    IN  IF Len(pathParams) = 0 /\ instanceofZodTypeLikeVoid(unwrappedSchema)
        THEN Undefined
        ELSE IF ~instanceofZodTypeObject(unwrappedSchema)
        THEN Threw(InputNotObject, "")
        ELSE IF unknown # {}
        THEN Threw(UnknownPathParameter,
                   pathParams[CHOOSE i \in unknown : \A j \in unknown : i <= j])
        ELSE IF thrown # {}
        THEN mapped[CHOOSE i \in thrown : \A j \in thrown : i <= j]
        ELSE [status |-> "returned",
              header |-> headersSchema,
              path |-> zobject(ReduceTo(mapped, "path")),
              query |-> zobject(ReduceTo(mapped, "query"))]

(***************************************************************************)
(* getRequestBodyObject                                                    *)
(***************************************************************************)
\* getRequestBodyObject with the key check of getParameterObjects (lines
\* 83-90) added after the object check.
getRequestBodyObject_ChecksPathKeys(sch, pathParams, ctypes) ==
    IF ~instanceofZodType(sch) THEN Threw(NotAValidatorInput, "")
    ELSE
    LET isRequired == ~isOptional(sch)
        unwrappedSchema == unwrapZodType(sch, TRUE)
        mask == Range(pathParams)
        dedupedSchema == omit(unwrappedSchema, mask)
    IN  IF Len(pathParams) = 0 /\ instanceofZodTypeLikeVoid(unwrappedSchema)
        THEN Undefined
        ELSE IF ~instanceofZodTypeObject(unwrappedSchema)
        THEN Threw(InputNotObject, "")
        ELSE IF \E i \in 1..Len(pathParams) :
                    pathParams[i] \notin Range(ObjectKeys(unwrappedSchema.shape))
        THEN Threw(UnknownPathParameter, "")
        ELSE IF Len(pathParams) > 0 /\ Len(ObjectKeys(dedupedSchema.shape)) = 0
        THEN Undefined
        ELSE [status |-> "returned",
              required |-> isRequired,
              content |-> [ct \in Range(ctypes) |-> [schema |-> dedupedSchema]]]

getRequestBodyObject(sch, pathParams, ctypes) ==
    IF ~instanceofZodType(sch) THEN Threw(NotAValidatorInput, "")
    ELSE
    LET isRequired == ~isOptional(sch)
        unwrappedSchema == unwrapZodType(sch, TRUE)
        mask == Range(pathParams)
        dedupedSchema == omit(unwrappedSchema, mask)
    IN  IF Len(pathParams) = 0 /\ instanceofZodTypeLikeVoid(unwrappedSchema)
        THEN Undefined
        ELSE IF ~instanceofZodTypeObject(unwrappedSchema)
        THEN Threw(InputNotObject, "")
        ELSE IF Len(pathParams) > 0 /\ Len(ObjectKeys(dedupedSchema.shape)) = 0
        THEN Undefined
        ELSE [status |-> "returned",
              required |-> isRequired,
              content |-> [ct \in Range(ctypes) |-> [schema |-> dedupedSchema]]]

(***************************************************************************)
(* errorResponseObject and getResponsesObject                              *)
(***************************************************************************)
ZString == Node(<<>>, "ZodString", <<>>)

\* z.array(z.object({message: z.string()})): the element is the one field.
IssuesArray ==
    Node(<<>>, "ZodArray",
         <<[name |-> "element",
            schema |-> zobject(<<[name |-> "message", schema |-> ZString]>>)]>>)

errorResponseObject ==
    [description |-> "Error response",
     content |->
        [ct \in {"application/json"} |->
            [schema |-> zobject(<<[name |-> "message", schema |-> ZString],
                                  [name |-> "code", schema |-> ZString],
                                  [name |-> "issues", schema |-> optional(IssuesArray)]>>),
             openapi |-> [ref |-> "Error", title |-> "Error",
                          description |-> "The error information"]]]]

\* The plain JSON schemas {} and {not: {}}.
EmptySchema == Node(<<>>, "{}", <<>>)
NotAnything == Node(<<>>, "{not:{}}", <<>>)

\* getResponsesObject with the first test of line 243 reading
\* instanceofZodTypeLikeVoid(schema).
getResponsesObject_LikeVoid(sch, headers) ==
    IF ~instanceofZodType(sch) THEN Threw(NotAValidatorOutput, "")
    ELSE
    LET successResponseObject ==
        [description |-> "Successful response",
         headers |-> headers,
         content |->
            [ct \in {"application/json"} |->
                [schema |->
                    IF instanceofZodTypeLikeVoid(sch) THEN EmptySchema ELSE sch]]]
    IN  [status |-> "returned",
         value |-> [k \in {"200", "default"} |->
                       IF k = "200" THEN successResponseObject
                       ELSE errorResponseObject]]

getResponsesObject(sch, headers) ==
    IF ~instanceofZodType(sch) THEN Threw(NotAValidatorOutput, "")
    ELSE
    LET successResponseObject ==
        [description |-> "Successful response",
         headers |-> headers,
         content |->
            [ct \in {"application/json"} |->
                [schema |->
                    IF instanceofZodTypeKind(sch, "ZodVoid") THEN EmptySchema
                    ELSE IF \/ instanceofZodTypeKind(sch, "ZodNever")
                            \/ instanceofZodTypeKind(sch, "ZodUndefined")
                    THEN NotAnything
                    ELSE sch]]]
    IN  [status |-> "returned",
         value |-> [k \in {"200", "default"} |->
                       IF k = "200" THEN successResponseObject
                       ELSE errorResponseObject]]

(***************************************************************************)
(* Inputs: the schemas a procedure can declare, within MaxWrap layers.     *)
(***************************************************************************)
WrapSeqs(n) == UNION {[1..k -> WrapperKinds] : k \in 0..n}

FieldNodes(n) == {Node(w, b, <<>>) : w \in WrapSeqs(n), b \in FieldBases}

Field(a, f) == [name |-> a, schema |-> f]

\* Objects with the keys of one of FieldKeyLists whose field schemas hold at
\* most n wrapper layers together.
Shapes(n) ==
    {<<>>}
    \cup UNION {{<<Field(k[1], f)>> : f \in FieldNodes(n)} :
                  k \in {l \in FieldKeyLists : Len(l) = 1}}
    \cup UNION {UNION {{<<Field(k[1], f), Field(k[2], g)>> :
                            g \in FieldNodes(n - Len(f.wraps))} :
                        f \in FieldNodes(n)} :
                 k \in {l \in FieldKeyLists : Len(l) = 2}}

ObjectSchemas ==
    UNION {{Node(w, "ZodObject", s) : s \in Shapes(MaxWrap - Len(w))} :
              w \in WrapSeqs(MaxWrap)}

\* The kinds of value a node parses: undefined, null, or a value of its base
\* kind.  A ZodDefault layer replaces undefined by its default value and
\* hands every other value to the schema below it.
RECURSIVE Accepted(_)
Accepted(type) ==
    IF type.wraps = <<>>
    THEN CASE type.base \in {"ZodVoid", "ZodUndefined"} -> {"undefined"}
           [] type.base = "ZodNever" -> {}
           [] OTHER -> {"value"}
    ELSE LET below == Accepted(innerType(type))
         IN  CASE Head(type.wraps) = "ZodOptional" -> below \cup {"undefined"}
               [] Head(type.wraps) = "ZodNullable" -> below \cup {"null"}
               [] Head(type.wraps) = "ZodDefault" -> below \cup {"undefined"}
               [] OTHER -> below \ {"undefined"}

\* A node that parses no value at all, such as z.never() or
\* z.void().default('x').
AcceptsNothing(type) == Accepted(type) = {}

\* No layer written "ZodDefault" sits on a schema that accepts no value.
Constructible(type) ==
    \A i \in 1..Len(type.wraps) :
        type.wraps[i] = "ZodDefault"
            => ~AcceptsNothing([type EXCEPT !.wraps = SubSeq(@, i + 1, Len(@))])

Schemas ==
    ObjectSchemas
    \cup {t \in {Node(w, b, <<>>) : w \in WrapSeqs(MaxWrap), b \in RootBases} :
             Constructible(t)}
    \cup {NotAZodType}

HeaderValues ==
    {UndefinedValue, zobject(<<Field("content-language", ZString)>>)}

\* The header schema the procedures of Spec declare for their requests.
RequestHeaders == zobject(<<Field("authorization", ZString)>>)

OutputSchemas ==
    Schemas
    \cup {t \in {Node(w, b, <<>>) : w \in WrapSeqs(MaxWrap), b \in OutputBases} :
             Constructible(t)}

(***************************************************************************)
(* The document assembler: one procedure's input schema and path           *)
(* parameter names, on which it calls each input-side deriver once, in     *)
(* either order.                                                           *)
(***************************************************************************)
Init ==
    /\ schema \in Schemas
    /\ pathParameters \in PathParameterLists
    /\ inType = "all"
    /\ contentTypes = <<>>
    /\ parameters = Pending
    /\ requestBody = Pending
    /\ outputSchema = NotAZodType
    /\ responseHeaders = UndefinedValue
    /\ responses = Pending

CallGetParameterObjects ==
    \E scope \in Scopes :
        /\ parameters = Pending
        /\ inType' = scope
        /\ parameters' = getParameterObjects(schema, pathParameters,
                                              RequestHeaders, scope)
        /\ UNCHANGED <<schema, pathParameters, contentTypes,
                       requestBody, outputSchema, responseHeaders, responses>>

CallGetRequestBodyObject ==
    \E ctypes \in ContentTypeLists :
        /\ requestBody = Pending
        /\ contentTypes' = ctypes
        /\ requestBody' = getRequestBodyObject(schema, pathParameters, ctypes)
        /\ UNCHANGED <<schema, pathParameters, inType,
                       parameters, outputSchema, responseHeaders, responses>>

Next == CallGetParameterObjects \/ CallGetRequestBodyObject

Spec == Init /\ [][Next]_vars

(***************************************************************************)
(* The output side: one procedure's output schema and response headers,    *)
(* on which the assembler calls getResponsesObject.                        *)
(***************************************************************************)
InitResponses ==
    /\ schema = NotAZodType
    /\ pathParameters = <<>>
    /\ inType = "all"
    /\ contentTypes = <<>>
    /\ parameters = Pending
    /\ requestBody = Pending
    /\ outputSchema \in OutputSchemas
    /\ responseHeaders \in HeaderValues
    /\ responses = Pending

CallGetResponsesObject ==
    /\ responses = Pending
    /\ responses' = getResponsesObject(outputSchema, responseHeaders)
    /\ UNCHANGED <<schema, pathParameters, inType, contentTypes,
                   parameters, requestBody, outputSchema, responseHeaders>>

NextResponses == CallGetResponsesObject

SpecResponses == InitResponses /\ [][NextResponses]_vars

(***************************************************************************)
(* Vocabulary of the properties.                                           *)
(***************************************************************************)
ParamsCalled == parameters.status # "pending"
BodyCalled == requestBody.status # "pending"
Returned(r) == r.status = "returned"
ThrewWith(r, msg) == r.status = "threw" /\ r.message = msg

\* The input after unwrapping, and whether it is object-shaped.
Unwrapped == unwrapZodType(schema, TRUE)
IsObjectInput == instanceofZodType(schema) /\ instanceofZodTypeObject(Unwrapped)
IsVoidInput == instanceofZodType(schema) /\ instanceofZodTypeLikeVoid(Unwrapped)

InputFields == Range(Unwrapped.shape)
FieldSet == {f.name : f \in InputFields}
PathNames == Range(pathParameters)
PathFields == {f \in InputFields : f.name \in PathNames}
NamesOf(objectSchema) == {f.name : f \in Range(objectSchema.shape)}

\* A field the type check of lines 107-121 accepts in this build.
Supported(f) ==
    \/ instanceofZodTypeLikeString(f.schema)
    \/ zodSupportsCoerce /\ instanceofZodTypeCoercible(f.schema)

\* The field names of the request body: none when the body is absent.
BodyNames ==
    IF Returned(requestBody)
    THEN UNION {NamesOf(requestBody.content[ct].schema) : ct \in DOMAIN requestBody.content}
    ELSE {}

\* A schema that holds a ZodOptional layer at any depth of its wrappers.
HasOptionalLayer(type) == \E i \in 1..Len(type.wraps) : type.wraps[i] = "ZodOptional"

(***************************************************************************)
(* C1 as stated: whenever a declared path parameter names a field whose    *)
(* outermost layer is optional, getParameterObjects raises the             *)
(* OptionalPathParameter error, whatever the scope.                        *)
(***************************************************************************)
OptionalPathField == \E f \in PathFields : instanceofZodTypeOptional(f.schema)

C1_AnyScope ==
    (ParamsCalled /\ IsObjectInput /\ OptionalPathField)
        => ThrewWith(parameters, OptionalPathParameter)

(***************************************************************************)
(* C1 amended: on an object input with an optional-wrapped path parameter  *)
(* field, getParameterObjects raises UnknownPathParameter when a declared  *)
(* name is not a field.  Otherwise, under scope 'all' or 'path' it always  *)
(* raises and never returns: of the fields the scope keeps, in declaration *)
(* order, the first that is unsupported or an optional-wrapped path        *)
(* parameter decides, with UnsupportedFieldType for that field when it is  *)
(* unsupported and OptionalPathParameter for that field otherwise.  Under  *)
(* scope 'query' the path fields are filtered out before the check:        *)
(* OptionalPathParameter is never raised, and the call returns unless a    *)
(* kept field is unsupported.                                              *)
(***************************************************************************)
\* The fields the scope keeps, in declaration order.
KeptFields ==
    SelectSeq(Unwrapped.shape,
              LAMBDA f : IF inType = "path" THEN f.name \in PathNames
                         ELSE IF inType = "query" THEN f.name \notin PathNames
                         ELSE TRUE)

\* A kept field the classification rejects.
Offends(f) ==
    \/ ~Supported(f)
    \/ f.name \in PathNames /\ instanceofZodTypeOptional(f.schema)

Offenders == {i \in 1..Len(KeptFields) : Offends(KeptFields[i])}

FirstOffender == KeptFields[CHOOSE i \in Offenders : \A j \in Offenders : i <= j]

ThrewUnsupportedFieldType ==
    \/ ThrewWith(parameters, UnsupportedFieldTypeCoerce)
    \/ ThrewWith(parameters, UnsupportedFieldTypeString)

C1_OptionalPathParameterRejected ==
    (ParamsCalled /\ IsObjectInput /\ OptionalPathField)
        => IF ~(PathNames \subseteq FieldSet)
           THEN ThrewWith(parameters, UnknownPathParameter)
           ELSE IF Offenders = {}
           THEN inType = "query" /\ Returned(parameters)
           ELSE /\ parameters.status = "threw"
                /\ parameters.key = FirstOffender.name
                /\ IF Supported(FirstOffender)
                   THEN inType \in {"all", "path"}
                        /\ ThrewWith(parameters, OptionalPathParameter)
                   ELSE ThrewUnsupportedFieldType

\* An optional id path parameter ahead of an unsupported field, rejected
\* under 'all' as an optional path parameter.
C1_Witness ==
    /\ IsObjectInput /\ OptionalPathField
    /\ Len(Unwrapped.shape) = 2
    /\ \E f \in InputFields : ~Supported(f)
    /\ inType = "all"
    /\ ThrewWith(parameters, OptionalPathParameter)
    /\ parameters.key = "id"

(***************************************************************************)
(* C2: for an input that unwraps to an object and any scope, a declared    *)
(* path-parameter name that is not a field makes getParameterObjects raise *)
(* UnknownPathParameter for the first such name, before any field is       *)
(* classified (so also when a field is unsupported or an optional path     *)
(* parameter), and never return.                                           *)
(***************************************************************************)
FirstUnknown ==
    LET unknown == {i \in 1..Len(pathParameters) : pathParameters[i] \notin FieldSet}
    IN  pathParameters[CHOOSE i \in unknown : \A j \in unknown : i <= j]

C2_UnknownPathParameterRejected ==
    (ParamsCalled /\ IsObjectInput /\ ~(PathNames \subseteq FieldSet))
        => /\ ThrewWith(parameters, UnknownPathParameter)
           /\ parameters.key = FirstUnknown

\* The unknown name wins over a field that classification would reject.
C2_Witness ==
    /\ IsObjectInput
    /\ pathParameters = <<"id", "slug">>
    /\ \E f \in InputFields : ~Supported(f)
    /\ OptionalPathField
    /\ ThrewWith(parameters, UnknownPathParameter)
    /\ parameters.key = "slug"

(***************************************************************************)
(* C3 as stated: a declared path-parameter name that is not a field of the *)
(* unwrapped input object makes getRequestBodyObject raise an error.       *)
(***************************************************************************)
C3_BodyRejectsUnknownName ==
    (BodyCalled /\ IsObjectInput /\ ~(PathNames \subseteq FieldSet))
        => requestBody.status = "threw"

(***************************************************************************)
(* C3 amended: getRequestBodyObject does not check the path-parameter      *)
(* names.  On an object input with a declared name that is not a field it  *)
(* raises nothing: the omission ignores the name, and the result is absent *)
(* or a body that holds fields of the input only, none of them a declared  *)
(* path parameter, under each given content type.  Only                    *)
(* getParameterObjects, on the same input, raises UnknownPathParameter.    *)
(***************************************************************************)
C3_UnknownNameIgnoredByBody ==
    (BodyCalled /\ IsObjectInput /\ ~(PathNames \subseteq FieldSet))
        => /\ requestBody.status \in {"returned", "undefined"}
           /\ FieldSet \ PathNames = {} => requestBody = Undefined
           /\ Returned(requestBody)
                => /\ DOMAIN requestBody.content = Range(contentTypes)
                   /\ \A ct \in DOMAIN requestBody.content :
                         /\ Range(requestBody.content[ct].schema.shape) \subseteq InputFields
                         /\ NamesOf(requestBody.content[ct].schema) \cap PathNames = {}
           /\ ParamsCalled => ThrewWith(parameters, UnknownPathParameter)

\* Both derivers ran on {id, name} with path names id and slug: the body
\* keeps name, the parameter derivation fails on slug.
C3_Witness ==
    /\ IsObjectInput
    /\ pathParameters = <<"id", "slug">>
    /\ FieldSet = {"id", "name"}
    /\ Returned(requestBody)
    /\ contentTypes # <<>>
    /\ \A ct \in DOMAIN requestBody.content :
          NamesOf(requestBody.content[ct].schema) = {"name"}
    /\ ThrewWith(parameters, UnknownPathParameter)

(***************************************************************************)
(* C4: in every result getParameterObjects returns, no entry of the path   *)
(* map accepts an absent value or holds an optional layer, also not        *)
(* underneath default or nullable wrappers.                                *)
(***************************************************************************)
C4_PathEntriesNeverOptional ==
    (ParamsCalled /\ Returned(parameters))
        => \A e \in Range(parameters.path.shape) :
              ~isOptional(e.schema) /\ ~HasOptionalLayer(e.schema)

(***************************************************************************)
(* C5 as stated, under the scopes ('all', 'path') and content types (at    *)
(* least one) for which every field has a place: for an object input whose *)
(* path-parameter names are all fields, the names of the path map, the     *)
(* query map and the body schema (none when the body is absent) together   *)
(* are the field names of the input object; no field is lost and none is   *)
(* invented.                                                               *)
(***************************************************************************)
DerivedNames ==
    NamesOf(parameters.path) \cup NamesOf(parameters.query) \cup BodyNames

BothDerived ==
    /\ IsObjectInput /\ PathNames \subseteq FieldSet
    /\ BodyCalled /\ Returned(parameters)

C5_NoFieldLost ==
    (BothDerived /\ inType \in {"all", "path"} /\ contentTypes # <<>>)
        => DerivedNames = FieldSet

(***************************************************************************)
(* C6 as stated: for {id: string, name: optional string} with path         *)
(* parameter id, getParameterObjects (scope 'all') yields the one path     *)
(* parameter id, required, and the one query parameter name, not required, *)
(* and getRequestBodyObject yields an absent body.                         *)
(***************************************************************************)
ExampleSchema ==
    zobject(<<Field("id", ZString), Field("name", optional(ZString))>>)

IsExample == schema = ExampleSchema /\ pathParameters = <<"id">>

ExampleParameters ==
    /\ Returned(parameters)
    /\ parameters.path = zobject(<<Field("id", ZString)>>)
    /\ parameters.query = zobject(<<Field("name", optional(ZString))>>)
    /\ LET mapped == MappedFields(schema, pathParameters, "all", TRUE)
       IN  /\ Len(mapped) = 2
           /\ mapped[1].paramType = "path" /\ mapped[1].required
           /\ mapped[2].paramType = "query" /\ ~mapped[2].required

C6_ExampleBodyAbsent ==
    IsExample
        => /\ (ParamsCalled /\ inType = "all") => ExampleParameters
           /\ BodyCalled => requestBody = Undefined

(***************************************************************************)
(* C6 amended: for that input getParameterObjects (scope 'all') yields the *)
(* path parameter id, required, and the query parameter name, not          *)
(* required; getRequestBodyObject yields a present body, required, whose   *)
(* schema under every content type is the object with the one field name   *)
(* (id removed).                                                           *)
(***************************************************************************)
C6_Example ==
    IsExample
        => /\ (ParamsCalled /\ inType = "all") => ExampleParameters
           /\ BodyCalled
                => /\ Returned(requestBody)
                   /\ requestBody.required
                   /\ DOMAIN requestBody.content = Range(contentTypes)
                   /\ \A ct \in DOMAIN requestBody.content :
                         requestBody.content[ct].schema
                            = zobject(<<Field("name", optional(ZString))>>)

C6_Witness ==
    /\ IsExample
    /\ inType = "all" /\ ExampleParameters
    /\ Returned(requestBody)
    /\ Len(contentTypes) = 2

(***************************************************************************)
(* C7 as stated, with the path map read under the scopes that keep path    *)
(* fields ('all', 'path'): an object input whose fields are all declared   *)
(* path parameters (at least one declared) yields an absent body and, in   *)
(* any result of getParameterObjects, a non-empty path map; and the body   *)
(* of an object input is absent only when path parameters are declared and *)
(* removing them leaves no field (an empty object without path parameters  *)
(* yields a present body with an empty schema).                            *)
(***************************************************************************)
OnlyPathFields == IsObjectInput /\ pathParameters # <<>> /\ FieldSet \subseteq PathNames

C7_AbsentOnlyWhenConsumed ==
    /\ (OnlyPathFields /\ BodyCalled) => requestBody = Undefined
    /\ (OnlyPathFields /\ Returned(parameters) /\ inType \in {"all", "path"})
          => NamesOf(parameters.path) # {}
    /\ (IsObjectInput /\ BodyCalled /\ requestBody = Undefined)
          => pathParameters # <<>> /\ FieldSet \ PathNames = {}
    /\ (IsObjectInput /\ BodyCalled /\ FieldSet = {} /\ pathParameters = <<>>)
          => /\ Returned(requestBody)
             /\ \A ct \in DOMAIN requestBody.content :
                   requestBody.content[ct].schema = zobject(<<>>)

(***************************************************************************)
(* C9 as stated: in every result of getParameterObjects a query field is   *)
(* required iff the input schema is required and the field is required; an *)
(* entry that is not required is wrapped in exactly one optional marker,   *)
(* and a required entry does not accept absence.                           *)
(***************************************************************************)
QueryMapped ==
    SelectSeq(MappedFields(Unwrapped, pathParameters, inType, ~isOptional(schema)),
              LAMBDA p : p.paramType = "query")

InputField(fieldName) == CHOOSE f \in InputFields : f.name = fieldName

QueryRequiredIff ==
    /\ Len(parameters.query.shape) = Len(QueryMapped)
    /\ \A i \in 1..Len(QueryMapped) :
          /\ parameters.query.shape[i].name = QueryMapped[i].name
          /\ QueryMapped[i].required
                <=> (~isOptional(schema) /\ ~isOptional(InputField(QueryMapped[i].name).schema))
          /\ QueryMapped[i].required
                => /\ ~isOptional(parameters.query.shape[i].schema)
                   /\ parameters.query.shape[i].schema = InputField(QueryMapped[i].name).schema

ExactlyOneOptionalMarker(type) ==
    /\ instanceofZodTypeOptional(type)
    /\ ~instanceofZodTypeOptional(unwrap(type))

C9_ExactlyOneMarker ==
    (ParamsCalled /\ Returned(parameters))
        => /\ QueryRequiredIff
           /\ \A i \in 1..Len(QueryMapped) :
                 ~QueryMapped[i].required
                    => ExactlyOneOptionalMarker(parameters.query.shape[i].schema)

(***************************************************************************)
(* C9 amended: the required flag is as stated; an entry that is not        *)
(* required is the field's schema, less its outermost optional layer when  *)
(* it has one, inside one optional marker added by the deriver.  Optional  *)
(* layers further inside are kept, so a doubly optional field yields an    *)
(* entry with two optional markers.  A required entry is the field's       *)
(* schema itself and does not accept absence.                              *)
(***************************************************************************)
C9_QueryRequired ==
    (ParamsCalled /\ Returned(parameters))
        => /\ QueryRequiredIff
           /\ \A i \in 1..Len(QueryMapped) :
                 ~QueryMapped[i].required
                    => LET f == InputField(QueryMapped[i].name).schema
                       IN  parameters.query.shape[i].schema
                              = optional(IF instanceofZodTypeOptional(f)
                                         THEN unwrap(f) ELSE f)

\* A required field of an input that accepts absence: the query entry is not
\* required and carries the marker the deriver added.
C9_Witness ==
    /\ Returned(parameters)
    /\ isOptional(schema)
    /\ Len(QueryMapped) = 1
    /\ ~isOptional(InputField(QueryMapped[1].name).schema)
    /\ ~QueryMapped[1].required
    /\ instanceofZodTypeOptional(parameters.query.shape[1].schema)

(***************************************************************************)
(* C10: an input that unwraps (through pass-through and optional layers)   *)
(* to a void-like node yields undefined from getParameterObjects, under    *)
(* any scope, and from getRequestBodyObject, for any content types, when   *)
(* no path parameter is declared; with one or more declared, both raise    *)
(* InputNotObject.                                                         *)
(***************************************************************************)
C10_VoidInput ==
    IsVoidInput
        => /\ ParamsCalled
                => IF pathParameters = <<>> THEN parameters = Undefined
                   ELSE ThrewWith(parameters, InputNotObject)
           /\ BodyCalled
                => IF pathParameters = <<>> THEN requestBody = Undefined
                   ELSE ThrewWith(requestBody, InputNotObject)

\* A wrapped void input without path parameters: both derivers answered
\* undefined.
C10_Witness ==
    /\ IsVoidInput
    /\ Len(schema.wraps) = 2
    /\ pathParameters = <<>>
    /\ inType = "query"
    /\ parameters = Undefined
    /\ requestBody = Undefined
    /\ contentTypes # <<>>

(***************************************************************************)
(* C8: for every validator-node output schema and any headers value,       *)
(* getResponsesObject returns exactly the entries '200' and 'default'; the *)
(* application/json schema of '200' is {} for a void output, {not: {}} for *)
(* a never or undefined output and the output schema itself otherwise; and *)
(* 'default' is the fixed error response (description 'Error response',    *)
(* fields message, code and optional issues).                              *)
(***************************************************************************)
SuccessSchema == responses.value["200"].content["application/json"].schema

C8_Responses ==
    (responses.status # "pending" /\ instanceofZodType(outputSchema))
        => /\ Returned(responses)
           /\ DOMAIN responses.value = {"200", "default"}
           /\ responses.value["200"].description = "Successful response"
           /\ responses.value["200"].headers = responseHeaders
           /\ DOMAIN responses.value["200"].content = {"application/json"}
           /\ SuccessSchema =
                 CASE typeName(outputSchema) = "ZodVoid" -> EmptySchema
                   [] typeName(outputSchema) \in {"ZodNever", "ZodUndefined"} -> NotAnything
                   [] OTHER -> outputSchema
           /\ responses.value["default"] = errorResponseObject
           /\ responses.value["default"].description = "Error response"
           /\ LET envelope ==
                     responses.value["default"].content["application/json"].schema.shape
              IN  /\ ObjectKeys(envelope) = <<"message", "code", "issues">>
                  /\ ~isOptional(envelope[1].schema)
                  /\ ~isOptional(envelope[2].schema)
                  /\ instanceofZodTypeOptional(envelope[3].schema)

\* An undefined output with declared response headers.
C8_Witness ==
    /\ Returned(responses)
    /\ typeName(outputSchema) = "ZodUndefined"
    /\ responseHeaders # UndefinedValue
    /\ SuccessSchema = NotAnything

====
